---- MODULE Spec2Model ----
(***************************************************************************)
(* A model of the portfolio scripts of Investment_Efficient_Frontier_and_  *)
(* CAL:                                                                    *)
(*   efficient_frontier_cal.py  min_variance, efficient_frontier,          *)
(*                              calculate_tangent_portfolio                *)
(*   calculate_index.py         the ratio script (Sharpe, Treynor, Jensen) *)
(*   week_price.py              get_weekly_last_price                      *)
(*                                                                         *)
(* Numbers.  Floating point values are modelled by exact integers on a     *)
(* grid.  A weight w is held as the integer w * Scale(n), so that the      *)
(* uniform start 1/n is the integer Steps.  A value np.sqrt(q) is held as  *)
(* the record [nan |-> q < 0, sq |-> q]: the square root itself is never   *)
(* taken, two roots are compared through their squares, and the root of a  *)
(* negative number is NaN, which compares false with everything, as in     *)
(* IEEE arithmetic.                                                        *)
(*                                                                         *)
(* scipy.optimize.minimize is a library outside the repository.  It is     *)
(* modelled by its contract: the objective is called as fun(x, *args); a   *)
(* result with success = TRUE holds a feasible point that no feasible      *)
(* point improves on; a result with success = FALSE holds any vector at    *)
(* all.                                                                    *)
(***************************************************************************)
EXTENDS Integers, Sequences, FiniteSets, TLC

\* ------------------------------------------------------------------ bounds
Steps == 2
MaxTargets == 2
MaxMean == 2
AssetCounts == {1, 2}

MeanValues == 1..MaxMean
CovValues == (0 - 1)..1
TargetValues == 1..(MaxMean + 1)
RiskFreeValues == 0..MaxMean

VARIABLES
    mean_returns,    \* efficient_frontier_cal.py: the statistics every call is given
    cov_matrix,
    mv,              \* what min_variance returned or raised (NoResult before the call)
    tp,              \* what calculate_tangent_portfolio returned
    ef_pc,           \* efficient_frontier: "idle", "loop", "returned"
    target_returns,  \* its argument
    i,               \* position of the for loop in target_returns (1-based)
    risks,           \* its local lists
    returns,
    conv,            \* history: result.success of every solve of the sweep so far
    ef_x,            \* history: result.x behind every entry of risks
    memo,            \* minimize is deterministic: arguments already solved -> result
    idx_pc,          \* calculate_index.py: position of the script
    daily_return,    \* data['daily_return'], in units of 0.0001
    market_daily_return,
    return_to_risk_ratio, sharpe_ratio, beta, treynor_ratio, jensen_ratio,
    stdout,          \* what the script has printed
    wk_pc,           \* week_price.py, get_weekly_last_price: "loop", "returned", "raised"
    symbols,         \* its argument
    has_data,        \* the symbols whose download is not empty
    k,               \* position of the for loop in symbols (1-based)
    result,          \* its dict, as the sequence of its items in insertion order
    result_df        \* the table it returns

pvars == <<mean_returns, cov_matrix, mv, tp, ef_pc, target_returns, i, risks,
           returns, conv, ef_x, memo>>
ivars == <<idx_pc, daily_return, market_daily_return, return_to_risk_ratio,
           sharpe_ratio, beta, treynor_ratio, jensen_ratio, stdout>>
wvars == <<wk_pc, symbols, has_data, k, result, result_df>>
vars == <<pvars, ivars, wvars>>

NoResult == [none |-> TRUE]

\* ------------------------------------------------------- vectors and floats
RECURSIVE SumTo(_, _)
SumTo(x, n) == IF n = 0 THEN 0 ELSE x[n] + SumTo(x, n - 1)

\* np.sum(x)
NpSum(x) == SumTo(x, Len(x))

\* np.dot(x, y) of two vectors
NpDot(x, y) == SumTo([j \in 1..Len(x) |-> x[j] * y[j]], Len(x))

\* np.dot(cov_matrix, weights): a matrix times a vector
MatVec(m, x) == [j \in 1..Len(m) |-> NpDot(m[j], x)]

\* np.sqrt(q): NaN for a negative q (a RuntimeWarning, no exception)
NpSqrt(q) == IF q < 0 THEN [nan |-> TRUE, sq |-> 0] ELSE [nan |-> FALSE, sq |-> q]

\* a < b on two values of NpSqrt; false when either is NaN
FloatLt(a, b) == ~a.nan /\ ~b.nan /\ a.sq < b.sq
FloatLe(a, b) == ~a.nan /\ ~b.nan /\ a.sq <= b.sq

num_assets == Len(mean_returns)

\* The integer that stands for the weight 1.0 in a portfolio of n assets.
Scale(n) == n * Steps

\* num_assets * [1. / num_assets]
UniformGuess(n) == [j \in 1..n |-> Steps]

\* tuple((0, 1) for _ in range(num_assets))
Bounds(n) == [j \in 1..n |-> <<0, Scale(n)>>]

calculate_portfolio_performance(weights, mean, cov) ==
    [portfolio_return |-> NpDot(weights, mean),
     portfolio_risk   |-> NpSqrt(NpDot(weights, MatVec(cov, weights)))]

\* ------------------------------------------------------------- the solver
\* {'type': 'eq', 'fun': lambda x: np.sum(x) - 1}
BudgetConstraint == [type |-> "eq", fun |-> "sum", target |-> 0]

\* {'type': 'eq', 'fun': lambda x: np.dot(x, mean_returns) - target}
ReturnConstraint(target) == [type |-> "eq", fun |-> "return", target |-> target]

\* The value of a constraint's fun at x (times Scale).
ConstraintFun(c, x, mean) ==
    IF c.fun = "sum" THEN NpSum(x) - Scale(Len(x))
    ELSE NpDot(x, mean) - c.target * Scale(Len(x))

InBounds(x, bounds) == \A j \in 1..Len(x) : bounds[j][1] <= x[j] /\ x[j] <= bounds[j][2]

Feasible(bounds, constraints, mean) ==
    {x \in [1..Len(bounds) -> 0..Scale(Len(bounds))] :
        /\ InBounds(x, bounds)
        /\ \A c \in constraints : ConstraintFun(c, x, mean) = 0}

\* -e1/sqrt(q1) < -e2/sqrt(q2) in IEEE arithmetic: the objective of the tangent
\* portfolio at two points with excess returns e1, e2 and variances q1, q2.
NegSharpeLt(e1, q1, e2, q2) ==
    LET Kind(e, q) == IF q < 0 \/ (q = 0 /\ e = 0) THEN "nan"
                      ELSE IF q = 0 THEN (IF e > 0 THEN "ninf" ELSE "pinf")
                      ELSE "fin"
        k1 == Kind(e1, q1)
        k2 == Kind(e2, q2)
    IN  IF k1 = "nan" \/ k2 = "nan" THEN FALSE
        ELSE IF k1 = "ninf" THEN k2 # "ninf"
        ELSE IF k2 = "ninf" THEN FALSE
        ELSE IF k2 = "pinf" THEN k1 # "pinf"
        ELSE IF k1 = "pinf" THEN FALSE
        \* both finite: e1/sqrt(q1) > e2/sqrt(q2)
        ELSE IF e1 >= 0 /\ e2 < 0 THEN TRUE
        ELSE IF e1 < 0 /\ e2 >= 0 THEN FALSE
        ELSE IF e1 >= 0 THEN e1 * e1 * q2 > e2 * e2 * q1
        ELSE e1 * e1 * q2 < e2 * e2 * q1

\* objective(x) < objective(y).  objective is "risk" (the lambda of min_variance and
\* efficient_frontier) or "neg_sharpe" (the lambda of calculate_tangent_portfolio).
ObjectiveLt(objective, x, y, mean, cov, risk_free_rate) ==
    IF objective = "risk"
    THEN FloatLt(calculate_portfolio_performance(x, mean, cov).portfolio_risk,
                 calculate_portfolio_performance(y, mean, cov).portfolio_risk)
    ELSE LET excess_returns == [j \in 1..Len(mean) |-> mean[j] - risk_free_rate]
         IN NegSharpeLt(NpDot(x, excess_returns), NpDot(x, MatVec(cov, x)),
                        NpDot(y, excess_returns), NpDot(y, MatVec(cov, y)))

\* What a solve that did not converge may hold in result.x.
Garbage(n) == [1..n -> (0 - 1)..(Scale(n) + 1)]

\* The parameters an objective takes after x: each objective of the file is a
\* lambda x: ..., which takes none.
ExtraParameters(objective) == 0

\* An outcome of minimize that is an exception, not a result.
Raised(res) == "raised" \in DOMAIN res

\* scipy.optimize.minimize(objective, x0, args=args, bounds=bounds,
\* constraints=constraints): the set of its outcomes.  minimize calls
\* objective(x, *args), which is a TypeError unless the objective takes Len(args)
\* parameters after x.
minimize(objective, x0, args, bounds, constraints, mean, cov, risk_free_rate) ==
    LET F == Feasible(bounds, constraints, mean)
        best == {x \in F : \A y \in F :
                    ~ObjectiveLt(objective, y, x, mean, cov, risk_free_rate)}
    IN  IF Len(args) # ExtraParameters(objective)
        THEN {[raised |-> "TypeError"]}
        ELSE {[success |-> TRUE, x |-> x] : x \in best}
             \cup {[success |-> FALSE, x |-> g] : g \in Garbage(Len(x0))}

\* ------------------------------------------------------------ statistics
Symmetric(c) == \A a \in 1..Len(c) : \A b \in 1..Len(c) : c[a][b] = c[b][a]

\* Covariance matrices: symmetric, variances on the diagonal not negative.
CovMatrices(n) ==
    {c \in [1..n -> [1..n -> CovValues]] :
        Symmetric(c) /\ \A a \in 1..n : c[a][a] >= 0}

\* Positive semidefinite (n <= 2: the diagonal and the determinant).
IsPSD(c) ==
    /\ \A a \in 1..Len(c) : c[a][a] >= 0
    /\ Len(c) = 2 => c[1][1] * c[2][2] >= c[1][2] * c[2][1]

\* ---------------------------------------------------------- min_variance
\* args = (cov_matrix): parentheses around one value, which minimize wraps into the
\* tuple (cov_matrix,).
MinVarianceArgs == <<cov_matrix>>

MinVarianceResult ==
    minimize("risk", UniformGuess(num_assets), MinVarianceArgs, Bounds(num_assets),
             {BudgetConstraint}, mean_returns, cov_matrix, 0)

\* return result.x.  The success field is history: min_variance never reads it.
\* An exception of minimize leaves min_variance as it is.
MinVarianceReturn(res) ==
    IF Raised(res) THEN res ELSE [weights |-> res.x, success |-> res.success]

MinVariance ==
    /\ ef_pc # "loop" /\ mv = NoResult
    /\ \E res \in MinVarianceResult : mv' = MinVarianceReturn(res)
    /\ UNCHANGED <<mean_returns, cov_matrix, tp, ef_pc, target_returns, i, risks,
                   returns, conv, ef_x, memo, ivars, wvars>>

\* ----------------------------------------------- calculate_tangent_portfolio
TangentReturn(res) ==
    LET perf == calculate_portfolio_performance(res.x, mean_returns, cov_matrix)
    IN  [weights |-> res.x, portfolio_return |-> perf.portfolio_return,
         portfolio_risk |-> perf.portfolio_risk, success |-> res.success]

CalculateTangentPortfolio ==
    /\ ef_pc # "loop" /\ tp = NoResult
    /\ \E risk_free_rate \in RiskFreeValues :
       \E res \in minimize("neg_sharpe", UniformGuess(num_assets), <<>>,
                           Bounds(num_assets),
                           {BudgetConstraint}, mean_returns, cov_matrix, risk_free_rate) :
           tp' = TangentReturn(res)
    /\ UNCHANGED <<mean_returns, cov_matrix, mv, ef_pc, target_returns, i, risks,
                   returns, conv, ef_x, memo, ivars, wvars>>

\* -------------------------------------------------------- efficient_frontier
TargetLists == UNION {[1..len -> TargetValues] : len \in 0..MaxTargets}

EfficientFrontier ==
    /\ ef_pc = "idle"
    /\ \E targets \in TargetLists : target_returns' = targets
    /\ ef_pc' = "loop"
    /\ i' = 1
    /\ risks' = <<>>
    /\ returns' = <<>>
    /\ UNCHANGED <<mean_returns, cov_matrix, mv, tp, conv, ef_x, memo, ivars, wvars>>

\* A closure bound once: every solve constrained to the first target of the list.
StaleConstraints(target) == {BudgetConstraint, ReturnConstraint(target_returns[1])}

\* The constraints of one target's solve.
FrontierConstraints(target) == {BudgetConstraint, ReturnConstraint(target)}

\* The start of one target's solve.
FrontierGuess == UniformGuess(num_assets)

\* risks.append(...) under if result.success
AppendRisk(list, res) ==
    IF res.success
    THEN Append(list, calculate_portfolio_performance(res.x, mean_returns,
                                                       cov_matrix).portfolio_risk)
    ELSE list

\* returns.append(target) moved out of the if.
AppendReturnAlways(list, target, res) == Append(list, target)

\* returns.insert(0, target) in place of returns.append(target).
PrependReturn(list, target, res) == IF res.success THEN <<target>> \o list ELSE list

\* returns.append(target) under if result.success
AppendReturn(list, target, res) == IF res.success THEN Append(list, target) ELSE list

\* What memo keeps of a result: the x of a failed solve is dropped, no caller reads it.
Kept(res) == IF res.success THEN res ELSE [success |-> FALSE]

FrontierStep ==
    /\ ef_pc = "loop" /\ i <= Len(target_returns)
    /\ LET target == target_returns[i]
           key == <<FrontierGuess, FrontierConstraints(target)>>
       IN \E res \in minimize("risk", FrontierGuess, <<>>, Bounds(num_assets),
                              FrontierConstraints(target), mean_returns, cov_matrix, 0) :
            /\ key \in DOMAIN memo => memo[key] = Kept(res)
            /\ memo' = IF key \in DOMAIN memo THEN memo ELSE memo @@ (key :> Kept(res))
            /\ risks' = AppendRisk(risks, res)
            /\ returns' = AppendReturn(returns, target, res)
            /\ conv' = Append(conv, res.success)
            /\ ef_x' = IF res.success THEN Append(ef_x, res.x) ELSE ef_x
    /\ i' = i + 1
    /\ UNCHANGED <<mean_returns, cov_matrix, mv, tp, ef_pc, target_returns, ivars, wvars>>

FrontierReturn ==
    /\ ef_pc = "loop" /\ i > Len(target_returns)
    /\ ef_pc' = "returned"
    /\ UNCHANGED <<mean_returns, cov_matrix, mv, tp, target_returns, i, risks, returns,
                   conv, ef_x, memo, ivars, wvars>>

\* --------------------------------------------------------- calculate_index.py
\* annual_risk_free_rate = 0.017, in units of 0.0001
AnnualRiskFreeRate == 170
\* risk_free_rate = annual_risk_free_rate / 365
DaysPerYear == 365
SeriesLen == 3
ReturnValues == (0 - 1)..1

\* A float a / b of two exact integers, as numpy divides float64 values: a zero
\* divisor gives inf, -inf or nan under a RuntimeWarning, never an exception.
NpDivide(a, b) ==
    IF b = 0
    THEN [kind |-> IF a > 0 THEN "inf" ELSE IF a < 0 THEN "-inf" ELSE "nan",
          num |-> 0, den |-> 1]
    ELSE IF b < 0 THEN [kind |-> "fin", num |-> 0 - a, den |-> 0 - b]
    ELSE [kind |-> "fin", num |-> a, den |-> b]

\* A float a / sqrt(v), v >= 0: the fraction is kept as a and v.
NpDivideBySqrt(a, v) ==
    IF v = 0
    THEN [kind |-> IF a > 0 THEN "inf" ELSE IF a < 0 THEN "-inf" ELSE "nan",
          num |-> 0, den_sq |-> 1]
    ELSE [kind |-> "fin", num |-> a, den_sq |-> v]

\* n * sum(x*y) - sum(x) * sum(y): n * (n - 1) times the sample covariance.
CoMoment(x, y) == Len(x) * NpDot(x, y) - NpSum(x) * NpSum(y)

\* (mean - risk_free_rate) * DaysPerYear * len(data) of a series
ExcessNum(x) == DaysPerYear * NpSum(x) - AnnualRiskFreeRate * Len(x)

\* lines 35-40: mean / std and (mean - risk_free_rate) / std, std the sample deviation.
\* mean / std = sum(x) / sqrt(CoMoment(x,x) * n / (n-1)); the fractions are kept
\* with their common factors.
ReturnToRisk(x) ==
    NpDivideBySqrt(NpSum(x) * (Len(x) - 1), CoMoment(x, x) * Len(x) * (Len(x) - 1))

Sharpe(x) ==
    NpDivideBySqrt(ExcessNum(x) * (Len(x) - 1),
                   CoMoment(x, x) * Len(x) * (Len(x) - 1) * DaysPerYear * DaysPerYear)

\* LinearRegression().fit(X, y).coef_[0][0]: the least squares slope; for a constant
\* X the minimum norm solution, 0.
RegressionBeta(X, y) ==
    IF CoMoment(X, X) = 0 THEN [num |-> 0, den |-> 1]
    ELSE [num |-> CoMoment(X, y), den |-> CoMoment(X, X)]

\* treynor_ratio = (daily_return_mean - risk_free_rate) / beta
Treynor(y, b) == NpDivide(ExcessNum(y) * b.den, DaysPerYear * Len(y) * b.num)

\* jensen_ratio = mean - (risk_free_rate + beta * (market mean - risk_free_rate))
Jensen(y, X, b) ==
    NpDivide(ExcessNum(y) * b.den - b.num * ExcessNum(X), DaysPerYear * Len(y) * b.den)

IndexRatios ==
    /\ idx_pc = "ratios"
    /\ return_to_risk_ratio' = ReturnToRisk(daily_return)
    /\ sharpe_ratio' = Sharpe(daily_return)
    /\ idx_pc' = "regression"
    /\ UNCHANGED <<daily_return, market_daily_return, beta, treynor_ratio, jensen_ratio,
                   stdout, pvars, wvars>>

IndexRegression ==
    /\ idx_pc = "regression"
    /\ beta' = RegressionBeta(market_daily_return, daily_return)
    /\ idx_pc' = "treynor"
    /\ UNCHANGED <<daily_return, market_daily_return, return_to_risk_ratio, sharpe_ratio,
                   treynor_ratio, jensen_ratio, stdout, pvars, wvars>>

IndexTreynor ==
    /\ idx_pc = "treynor"
    /\ treynor_ratio' = Treynor(daily_return, beta)
    /\ idx_pc' = "jensen"
    /\ UNCHANGED <<daily_return, market_daily_return, return_to_risk_ratio, sharpe_ratio,
                   beta, jensen_ratio, stdout, pvars, wvars>>

IndexJensen ==
    /\ idx_pc = "jensen"
    /\ jensen_ratio' = Jensen(daily_return, market_daily_return, beta)
    /\ idx_pc' = "report"
    /\ UNCHANGED <<daily_return, market_daily_return, return_to_risk_ratio, sharpe_ratio,
                   beta, treynor_ratio, stdout, pvars, wvars>>

\* lines 58-62: the five values are printed one after the other, none checked.
IndexReport ==
    /\ idx_pc = "report"
    /\ stdout' = << <<"Return to Risk Ratio:", return_to_risk_ratio>>,
                    <<"Sharpe Ratio:", sharpe_ratio>>,
                    <<"Treynor Ratio:", treynor_ratio>>,
                    <<"Jensen Ratio:", jensen_ratio>>,
                    <<"Beta:", beta>> >>
    /\ idx_pc' = "done"
    /\ UNCHANGED <<daily_return, market_daily_return, return_to_risk_ratio, sharpe_ratio,
                   beta, treynor_ratio, jensen_ratio, pvars, wvars>>

\* ------------------------------------------------------------- week_price.py
MaxSymbols == 2
SymbolNames == {"^TWII", "^TELI", "2330.TW"}
SymbolLists == UNION {[1..len -> SymbolNames] : len \in 1..MaxSymbols}

\* data.groupby('Week').tail(1)['Close'] of the download of one symbol
WeeklyLastPrice(symbol) == [prices_of |-> symbol]

\* result[symbol] = value on a dict kept in insertion order
DictSet(d, key, value) ==
    IF \E j \in 1..Len(d) : d[j].key = key
    THEN [j \in 1..Len(d) |-> IF d[j].key = key THEN [key |-> key, value |-> value]
                                                 ELSE d[j]]
    ELSE Append(d, [key |-> key, value |-> value])

\* lines 9-28: one pass of the loop body
WeekStep ==
    /\ wk_pc = "loop" /\ k <= Len(symbols)
    /\ LET symbol == symbols[k]
       IN  result' = IF symbol \notin has_data THEN result
                     ELSE DictSet(result, symbol, WeeklyLastPrice(symbol))
    /\ k' = k + 1
    /\ UNCHANGED <<wk_pc, symbols, has_data, result_df, pvars, ivars>>

\* pd.concat(result, axis=1): one column per item; ValueError on an empty dict.
\* result_df.columns = symbols: ValueError unless there are as many columns as symbols.
ConcatOutcome(d, names) ==
    IF Len(d) = 0 THEN [raised |-> "ValueError: No objects to concatenate"]
    ELSE IF Len(d) # Len(names) THEN [raised |-> "ValueError: Length mismatch"]
    ELSE [raised |-> "",
          df |-> [j \in 1..Len(d) |-> [label |-> names[j],
                                        prices_of |-> d[j].value.prices_of]]]

\* lines 31-34
WeekConcat ==
    /\ wk_pc = "loop" /\ k > Len(symbols)
    /\ LET out == ConcatOutcome(result, symbols)
       IN  IF out.raised # ""
           THEN wk_pc' = "raised" /\ result_df' = [raised |-> out.raised]
           ELSE wk_pc' = "returned" /\ result_df' = out.df
    /\ UNCHANGED <<symbols, has_data, k, result, pvars, ivars>>

\* ------------------------------------------------------------------ specs
IndexIdle ==
    /\ idx_pc = "off" /\ daily_return = <<>> /\ market_daily_return = <<>>
    /\ return_to_risk_ratio = NoResult /\ sharpe_ratio = NoResult
    /\ beta = NoResult /\ treynor_ratio = NoResult /\ jensen_ratio = NoResult
    /\ stdout = <<>>

WeekIdle ==
    /\ wk_pc = "off" /\ symbols = <<>> /\ has_data = {} /\ k = 1
    /\ result = <<>> /\ result_df = NoResult

PortfolioIdle ==
    /\ mean_returns = <<>> /\ cov_matrix = <<>>
    /\ mv = NoResult /\ tp = NoResult
    /\ ef_pc = "off" /\ target_returns = <<>> /\ i = 1
    /\ risks = <<>> /\ returns = <<>> /\ conv = <<>> /\ ef_x = <<>>
    /\ memo = <<>>

PortfolioInit ==
    /\ \E n \in AssetCounts :
         /\ mean_returns \in [1..n -> MeanValues]
         /\ cov_matrix \in CovMatrices(n)
    /\ mv = NoResult /\ tp = NoResult
    /\ ef_pc = "idle" /\ target_returns = <<>> /\ i = 1
    /\ risks = <<>> /\ returns = <<>> /\ conv = <<>> /\ ef_x = <<>>
    /\ memo = <<>>

Init == PortfolioInit /\ IndexIdle /\ WeekIdle

Next ==
    \/ MinVariance
    \/ CalculateTangentPortfolio
    \/ EfficientFrontier
    \/ FrontierStep
    \/ FrontierReturn

Spec == Init /\ [][Next]_vars

FrontierNext ==
    \/ EfficientFrontier
    \/ FrontierStep
    \/ FrontierReturn

SpecFrontier == Init /\ [][FrontierNext]_vars

\* calculate_index.py, run on any two series of SeriesLen values.
IndexInit ==
    /\ daily_return \in [1..SeriesLen -> ReturnValues]
    /\ market_daily_return \in [1..SeriesLen -> ReturnValues]
    /\ idx_pc = "ratios"
    /\ return_to_risk_ratio = NoResult /\ sharpe_ratio = NoResult
    /\ beta = NoResult /\ treynor_ratio = NoResult /\ jensen_ratio = NoResult
    /\ stdout = <<>>

IndexNext ==
    \/ IndexRatios
    \/ IndexRegression
    \/ IndexTreynor
    \/ IndexJensen
    \/ IndexReport

InitIndex == PortfolioIdle /\ IndexInit /\ WeekIdle

SpecIndex == InitIndex /\ [][IndexNext]_vars

\* get_weekly_last_price, called on any list of symbols.
WeekInit ==
    /\ symbols \in SymbolLists
    /\ has_data \in SUBSET SymbolNames
    /\ wk_pc = "loop" /\ k = 1 /\ result = <<>> /\ result_df = NoResult

WeekNext ==
    \/ WeekStep
    \/ WeekConcat

InitWeek == PortfolioIdle /\ IndexIdle /\ WeekInit

SpecWeek == InitWeek /\ [][WeekNext]_vars

\* ================================================================= claims
\* Weights that are a fully invested long-only portfolio.
ValidWeights(w) ==
    /\ NpSum(w) = Scale(Len(w))
    /\ \A j \in 1..Len(w) : 0 <= w[j] /\ w[j] <= Scale(Len(w))

\* A call that returned a portfolio (not NoResult, not an exception).
Returned(r) == "weights" \in DOMAIN r

RECURSIVE CountTrue(_, _)
CountTrue(flags, n) ==
    IF n = 0 THEN 0 ELSE (IF flags[n] THEN 1 ELSE 0) + CountTrue(flags, n - 1)

\* The items of the first n of list whose flag is set, in the order of list.
RECURSIVE Selected(_, _, _)
Selected(list, flags, n) ==
    IF n = 0 THEN <<>>
    ELSE IF flags[n] THEN Append(Selected(list, flags, n - 1), list[n])
    ELSE Selected(list, flags, n - 1)

NonDecreasing(list) == \A a \in 1..Len(list) : \A b \in a..Len(list) : list[a] <= list[b]

\* The risk of weights under the statistics of the run.
RiskOf(w) == calculate_portfolio_performance(w, mean_returns, cov_matrix).portfolio_risk

\* C1: the weights of every portfolio returned by min_variance or
\* calculate_tangent_portfolio, or behind an entry of the curve of
\* efficient_frontier, sum to 1 and lie in [0,1], whatever the solver reported.
C1_PortfolioWeightsValid ==
    /\ Returned(mv) => ValidWeights(mv.weights)
    /\ Returned(tp) => ValidWeights(tp.weights)
    /\ \A e \in 1..Len(ef_x) : ValidWeights(ef_x[e])

\* What is left of C1 once every returned result is known to have converged.
C1_WhenConverged ==
    /\ (Returned(mv) /\ mv.success) => ValidWeights(mv.weights)
    /\ (Returned(tp) /\ tp.success) => ValidWeights(tp.weights)
    /\ \A e \in 1..Len(ef_x) : ValidWeights(ef_x[e])

\* C2: a target whose solve does not converge adds nothing and the sweep goes on:
\* risks and returns have one entry per converged target and none per other target,
\* so they are equally long and no longer than the input.
C2_OneEntryPerConvergedTarget ==
    /\ Len(risks) = Len(returns)
    /\ Len(returns) = CountTrue(conv, Len(conv))
    /\ Len(returns) <= Len(target_returns)
    /\ ef_pc = "loop" => Len(conv) = i - 1
    /\ ef_pc = "returned" => Len(conv) = Len(target_returns)
    /\ \A t \in TargetValues :
          Cardinality({e \in 1..Len(returns) : returns[e] = t})
            = Cardinality({j \in 1..Len(conv) : conv[j] /\ target_returns[j] = t})

C2_Witness ==
    /\ ef_pc = "returned"
    /\ \E a \in 1..Len(conv) : \E b \in 1..Len(conv) : conv[a] /\ ~conv[b]

\* C3: no caller of the solver returns or records the weights of a solve that did
\* not converge.
C3_CallersDiscardNonConverged ==
    /\ Returned(mv) => mv.success
    /\ Returned(tp) => tp.success
    /\ Len(ef_x) = CountTrue(conv, Len(conv))

\* C4 as claimed: the returns list of efficient_frontier is non-decreasing for every
\* input sequence of targets.
C4_ReturnsAscending == ef_pc = "returned" => NonDecreasing(returns)

\* C4 as amended: returns holds the converged targets in the order of the input, so
\* it is non-decreasing whenever the input is; nothing is sorted.
C4_ReturnsInInputOrder ==
    /\ returns = Selected(target_returns, conv, Len(conv))
    /\ (ef_pc = "returned" /\ NonDecreasing(target_returns)) => NonDecreasing(returns)

C4_Witness ==
    /\ ef_pc = "returned"
    /\ Len(returns) = 2
    /\ returns[1] < returns[2]

\* C5: for a positive semidefinite covariance min_variance returns a portfolio, whose
\* risk is at most the risk of every entry of the curve efficient_frontier builds for
\* the same statistics.
C5_MinVarianceIsCurveMinimum ==
    (mv # NoResult /\ IsPSD(cov_matrix)) =>
        /\ Returned(mv)
        /\ \A e \in 1..Len(risks) : FloatLe(RiskOf(mv.weights), risks[e])

\* C7: calculate_portfolio_performance returns no undefined risk: a negative quadratic
\* form is returned as the clamped 0 or not returned at all.
C7_RiskNeverUndefined ==
    /\ \A e \in 1..Len(risks) : risks[e] = NpSqrt(0) \/ ~risks[e].nan
    /\ (Returned(tp) /\ ValidWeights(tp.weights)) =>
          (tp.portfolio_risk = NpSqrt(0) \/ ~tp.portfolio_risk.nan)

\* C8: for a single asset min_variance returns the weight 1.0, whose risk is the
\* square root of the one covariance entry.
C8_SingleAssetMinVariance ==
    (mv # NoResult /\ num_assets = 1) =>
        /\ Returned(mv)
        /\ mv.weights = <<Scale(1)>>
        /\ RiskOf(mv.weights) = NpSqrt(Scale(1) * Scale(1) * cov_matrix[1][1])

\* The arguments of the solve of target t on its own.
SoloKey(t) == <<UniformGuess(num_assets), {BudgetConstraint, ReturnConstraint(t)}>>

\* The results the solve of target t on its own may give.
SoloResults(t) ==
    minimize("risk", UniformGuess(num_assets), <<>>, Bounds(num_assets),
             {BudgetConstraint, ReturnConstraint(t)}, mean_returns, cov_matrix, 0)

C10_SkipsSymbolsWithoutData ==
    wk_pc # "loop" =>
        /\ wk_pc = "returned"
        /\ \A c \in 1..Len(result_df) : result_df[c].label = result_df[c].prices_of
        /\ {result_df[c].label : c \in 1..Len(result_df)}
             = {symbols[j] : j \in {a \in 1..Len(symbols) : symbols[a] \in has_data}}
        /\ Len(result_df)
             = Cardinality({symbols[j] : j \in {a \in 1..Len(symbols) : symbols[a] \in has_data}})

====
